---------------------------- MODULE Spec2Model ----------------------------
(***************************************************************************)
(* A model of delta.py: the line-shape learner/matcher (Parser), the       *)
(* renderer (Format, NumberChunk, StringChunk), the separator policy       *)
(* (Printer) and the processing loop (run).                                *)
(*                                                                         *)
(* A line is a sequence of one-character strings.  A number is a record    *)
(* [f, n, e]: f says whether it is a Python float, and its value is        *)
(* n / 10^e, with e = 0 for an int and e the least possible for a float.   *)
(* Floats are decimal and exact: the binary rounding of Python's floats is *)
(* not modelled.                                                           *)
(***************************************************************************)
EXTENDS Integers, Sequences, FiniteSets, TLC

VARIABLES
    values,              \* Parser.values: registered shapes, in insertion order
    flex,                \* Parser.flex
    absolute,            \* Parser.absolute
    use_colors,          \* Parser.use_colors
    timestamps,          \* Printer.timestamps
    separators,          \* Printer.separators
    orig,                \* Printer.orig
    skip_zeros,          \* Printer.skip_zeros
    separators_pending,  \* Printer.separators_pending
    lines_since_sep,     \* Printer.lines_since_sep
    multiline,           \* Printer.multiline
    fp,                  \* Printer.fp: the chunks written so far, in order
    consumed,            \* the number of characters of input consumed
    items,               \* the number of feed items (or lines) consumed
    last,                \* the last call made: its arguments, result and effect
    observed,            \* per shape: the line it was learned from, the values
                         \* of that line and of the last line that matched it
    burst,               \* the calls since the last separator(), and before it
    applied,             \* the last call of a static function: its arguments
                         \* and its result
    feed                 \* the feed given to run() as a whole, all its items
                         \* in order (empty where the items are drawn one by
                         \* one, or no feed is read)

vars == <<values, flex, absolute, use_colors, timestamps, separators, orig,
          skip_zeros, separators_pending, lines_since_sep, multiline, fp,
          consumed, items, last, observed, burst, applied, feed>>

---------------------------------------------------------------------------
(* Bounds of the model. *)

\* The lines given to process() on its own hold at most MaxInput characters
\* in all, each line counting one more than its length.
MaxInput == 7

\* The feed of run() holds at most MaxItems items (lines and boundary markers).
MaxItems == 5

---------------------------------------------------------------------------
(* Characters, strings and numbers. *)

Digits == {"0", "1", "2", "3", "4", "5", "6", "7", "8", "9"}

\* string.whitespace, and the characters the pattern \s matches (the vertical
\* tab has no string in TLA+)
Whitespace == {" ", "\t", "\n", "\r", "\f"}

DigitVal(c) ==
    CASE c = "0" -> 0 [] c = "1" -> 1 [] c = "2" -> 2 [] c = "3" -> 3
      [] c = "4" -> 4 [] c = "5" -> 5 [] c = "6" -> 6 [] c = "7" -> 7
      [] c = "8" -> 8 [] c = "9" -> 9

DigitChar(d) ==
    CASE d = 0 -> "0" [] d = 1 -> "1" [] d = 2 -> "2" [] d = 3 -> "3"
      [] d = 4 -> "4" [] d = 5 -> "5" [] d = 6 -> "6" [] d = 7 -> "7"
      [] d = 8 -> "8" [] d = 9 -> "9"

RECURSIVE Pow10(_)
Pow10(k) == IF k = 0 THEN 1 ELSE 10 * Pow10(k - 1)

\* The length of the longest run of characters of set S in s from position p
\* (1-based).
RECURSIVE RunLen(_, _, _)
RunLen(s, p, S) ==
    IF p <= Len(s) /\ s[p] \in S THEN 1 + RunLen(s, p + 1, S) ELSE 0

\* The value of a string of digits.
RECURSIVE DigitsVal(_)
DigitsVal(s) ==
    IF s = <<>> THEN 0
    ELSE 10 * DigitsVal(SubSeq(s, 1, Len(s) - 1)) + DigitVal(s[Len(s)])

\* The position of the first "." of s, or 0.
RECURSIVE DotPos(_, _)
DotPos(s, p) ==
    IF p > Len(s) THEN 0 ELSE IF s[p] = "." THEN p ELSE DotPos(s, p + 1)

HasDot(s) == DotPos(s, 1) # 0

\* s without its leading whitespace (int() and float() ignore it).
Strip(s) == SubSeq(s, RunLen(s, 1, Whitespace) + 1, Len(s))

\* The float n / 10^e, e the least possible.
RECURSIVE Float(_, _)
Float(n, e) ==
    IF e > 0 /\ n % 10 = 0 THEN Float(n \div 10, e - 1)
    ELSE [f |-> TRUE, n |-> n, e |-> e]

\* Parser.num: int(n) when n has no ".", else float(n).
num(n) ==
    LET t == Strip(n)
        d == DotPos(t, 1)
    IN  IF d = 0
        THEN [f |-> FALSE, n |-> DigitsVal(t), e |-> 0]
        ELSE LET whole == SubSeq(t, 1, d - 1)
                 frac == SubSeq(t, d + 1, Len(t))
             IN  Float(DigitsVal(whole) * Pow10(Len(frac)) + DigitsVal(frac),
                       Len(frac))

\* n - o of Python: int - int is an int, anything else a float.
Sub(n, o) ==
    IF ~n.f /\ ~o.f THEN [f |-> FALSE, n |-> n.n - o.n, e |-> 0]
    ELSE LET e == IF n.e > o.e THEN n.e ELSE o.e
         IN  Float(n.n * Pow10(e - n.e) - o.n * Pow10(e - o.e), e)

IsZero(d) == d.n = 0

---------------------------------------------------------------------------
(* Chunks.  A chunk is a record; t = "s" is a StringChunk (static_str), t = *)
(* "n" a NumberChunk (prefix, align, plus, width, fmt).  width is the pair  *)
(* (zero, width): zero says that the width is the string "0<width>"; fmt is *)
(* prec: -1 for "", k for ".kf".                                            *)

\* StringChunk.__init__
StringChunk(static_str) ==
    [t |-> "s", static_str |-> static_str, prefix |-> <<>>, align |-> <<>>,
     plus |-> <<>>, zero |-> FALSE, width |-> 0, prec |-> -1]

\* NumberChunk.__init__
NumberChunk(prefix, align, plus, zero, width, prec) ==
    [t |-> "n", static_str |-> <<>>, prefix |-> prefix, align |-> align,
     plus |-> plus, zero |-> zero, width |-> width, prec |-> prec]

\* A detect that widens a left-justified token too.
detect_WidenLeft(spaces, n, first, flx) ==
    LET prefix == IF spaces # <<>> THEN <<" ">> ELSE <<>>
        width0 == IF spaces # <<>> THEN Len(n) + Len(spaces) - 1 ELSE Len(n)
        align0 == IF spaces # <<>> \/ first THEN <<>> ELSE <<"<">>
        d == DotPos(n, 1)
        least == IF d = 0 THEN 2 ELSE Len(n) - d + 3
        lead == IF d = 0 THEN Len(n) > 1 /\ n[1] = "0"
                ELSE d > 2 /\ n[1] = "0"
    IN  NumberChunk(prefix, IF lead THEN <<>> ELSE align0, <<"+">>, lead,
                    IF flx /\ width0 < least THEN least ELSE width0,
                    IF d = 0 THEN -1 ELSE Len(n) - d)

\* A detect that looks for a leading zero in an integer only.
detect_IntZeroOnly(spaces, n, first, flx) ==
    LET prefix == IF spaces # <<>> THEN <<" ">> ELSE <<>>
        width0 == IF spaces # <<>> THEN Len(n) + Len(spaces) - 1 ELSE Len(n)
        align0 == IF spaces # <<>> \/ first THEN <<>> ELSE <<"<">>
        d == DotPos(n, 1)
        least == IF d = 0 THEN 2 ELSE Len(n) - d + 3
        lead == d = 0 /\ Len(n) > 1 /\ n[1] = "0"
    IN  NumberChunk(prefix, IF lead THEN <<>> ELSE align0, <<"+">>, lead,
                    IF align0 = <<>> /\ flx /\ width0 < least
                    THEN least ELSE width0,
                    IF d = 0 THEN -1 ELSE Len(n) - d)

\* NumberChunk.detect
detect(spaces, n, first, flx) ==
    LET prefix == IF spaces # <<>> THEN <<" ">> ELSE <<>>
        width0 == IF spaces # <<>> THEN Len(n) + Len(spaces) - 1 ELSE Len(n)
        align0 == IF spaces # <<>> \/ first THEN <<>> ELSE <<"<">>
    IN  IF ~HasDot(n)
        THEN LET width1 == IF align0 = <<>> /\ flx /\ width0 < 2
                           THEN 2 ELSE width0
                 lead == Len(n) > 1 /\ n[1] = "0"
             IN  NumberChunk(prefix, IF lead THEN <<>> ELSE align0, <<"+">>,
                             lead, width1, -1)
        ELSE LET d == DotPos(n, 1)
                 whole == SubSeq(n, 1, d - 1)
                 frac_len == Len(n) - d
                 width1 == IF align0 = <<>> /\ flx /\ width0 < frac_len + 3
                           THEN frac_len + 3 ELSE width0
                 lead == Len(whole) > 1 /\ whole[1] = "0"
             IN  NumberChunk(prefix, IF lead THEN <<>> ELSE align0, <<"+">>,
                             lead, width1, frac_len)

\* A plain() that keeps the sign flag of a NumberChunk.
ChunkPlain_KeepPlus(c) == c

\* StringChunk.plain, NumberChunk.plain
ChunkPlain(c) == IF c.t = "s" THEN c ELSE [c EXCEPT !.plus = <<>>]

\* StringChunk.whitespace, NumberChunk.whitespace
ChunkWhitespace(c) ==
    IF c.t = "s"
    THEN [c EXCEPT !.static_str =
             [i \in 1..Len(c.static_str) |->
                 IF c.static_str[i] \in Whitespace THEN c.static_str[i]
                 ELSE " "]]
    ELSE c

\* Format.__init__: a shape is its chunks and its colors flag (the compiled
\* pattern is a function of the chunks: see RegexMatch).
Format(chunks, colors) == [chunks |-> chunks, colors |-> colors]

\* Format.plain
FormatPlain(fmt) ==
    Format([i \in 1..Len(fmt.chunks) |-> ChunkPlain(fmt.chunks[i])], FALSE)

\* Format.whitespace
FormatWhitespace(fmt) ==
    Format([i \in 1..Len(fmt.chunks) |-> ChunkWhitespace(fmt.chunks[i])],
           fmt.colors)

\* The NumberChunks of a shape, in order.
NumberChunks(fmt) == SelectSeq(fmt.chunks, LAMBDA c : c.t = "n")

---------------------------------------------------------------------------
(* Parser.parse: re.split on the number pattern (a whitespace run, digits,  *)
(* optionally a point and digits), the result grouped by three.             *)

\* The end (exclusive) of the number token whose digits start at q: the
\* digits, and a "." with the digits after it when there are any.
TokenEnd(line, q) ==
    LET d == RunLen(line, q, Digits)
        e == q + d
        fr == IF e <= Len(line) /\ line[e] = "."
              THEN RunLen(line, e + 1, Digits) ELSE 0
    IN  IF fr > 0 THEN e + 1 + fr ELSE e

\* The leftmost position >= p where the number pattern matches (a whitespace
\* run, possibly empty, then a digit), or 0.
RECURSIVE FindToken(_, _)
FindToken(line, p) ==
    IF p > Len(line) THEN 0
    ELSE LET w == RunLen(line, p, Whitespace)
         IN  IF p + w <= Len(line) /\ line[p + w] \in Digits THEN p
             ELSE FindToken(line, p + 1)

\* The groups (prefix, spaces, number) of the line from position p; the last
\* group has number = None, modelled by isnum = FALSE.
RECURSIVE Groups(_, _)
Groups(line, p) ==
    LET m == FindToken(line, p)
    IN  IF m = 0
        THEN << [prefix |-> SubSeq(line, p, Len(line)), spaces |-> <<>>,
                 number |-> <<>>, isnum |-> FALSE] >>
        ELSE LET w == RunLen(line, m, Whitespace)
                 e == TokenEnd(line, m + w)
             IN  << [prefix |-> SubSeq(line, p, m - 1),
                     spaces |-> SubSeq(line, m, m + w - 1),
                     number |-> SubSeq(line, m + w, e - 1),
                     isnum |-> TRUE] >> \o Groups(line, e)

\* The chunks parse() builds from the groups (flx is the flex argument detect
\* is called with).
RECURSIVE GroupChunks(_, _, _)
GroupChunks(gs, i, flx) ==
    IF i > Len(gs) THEN <<>>
    ELSE LET g == gs[i]
         IN  (IF g.prefix # <<>> THEN <<StringChunk(g.prefix)>> ELSE <<>>)
             \o (IF g.isnum
                 THEN <<detect(g.spaces, g.number, i = 1 /\ g.prefix = <<>>,
                               flx)>>
                 ELSE <<>>)
             \o GroupChunks(gs, i + 1, flx)

\* A parse() that takes a value from the last group too, which has no
\* number.
GroupValues_All(gs) == [i \in 1..Len(gs) |-> num(gs[i].number)]

\* The values parse() collects: num(number) of each group that has a number.
GroupValues(gs) ==
    LET ns == SelectSeq(gs, LAMBDA g : g.isnum)
    IN  [i \in 1..Len(ns) |-> num(ns[i].number)]

\* parse() calls detect without a flex argument: detect's default applies.
ParseChunks(line) == GroupChunks(Groups(line, 1), 1, TRUE)

ParseValues(line) == GroupValues(Groups(line, 1))

---------------------------------------------------------------------------
(* Format.regex.match(line): the pattern is the concatenation of the       *)
(* chunks' as_regex(); a StringChunk matches its escaped text, a           *)
(* NumberChunk is a group matching a whitespace run, digits and optionally *)
(* a point and digits.  match() anchors the pattern at the start of the    *)
(* line only; the engine is greedy and backtracks.                         *)

NoMatch == [ok |-> FALSE, groups |-> <<>>, end |-> 0]

\* The ends (exclusive) a number group starting at pos can have, in the order
\* the engine tries them: the whitespace run is taken whole (a shorter one
\* is followed by whitespace, not a digit); then with the fraction, longest
\* first; then without it, the digits longest first.
NumberEnds(line, pos) ==
    LET q == pos + RunLen(line, pos, Whitespace)
        d == RunLen(line, q, Digits)
        e == q + d
        fr == IF e <= Len(line) /\ line[e] = "."
              THEN RunLen(line, e + 1, Digits) ELSE 0
    IN  IF d = 0 THEN <<>>
        ELSE [k \in 1..fr |-> e + 1 + fr - (k - 1)]
             \o [k \in 1..d |-> e - (k - 1)]

\* StringChunk.as_regex at pos: the text itself.
LiteralAt(line, pos, str) ==
    /\ pos + Len(str) - 1 <= Len(line)
    /\ SubSeq(line, pos, pos + Len(str) - 1) = str

\* The match of chunks i.. at pos: whether there is one, its groups, and
\* where it ends (exclusive).
RECURSIVE MatchFrom(_, _, _, _)
RECURSIVE TryEnds(_, _, _, _, _, _)
MatchFrom(chunks, i, line, pos) ==
    IF i > Len(chunks) THEN [ok |-> TRUE, groups |-> <<>>, end |-> pos]
    ELSE IF chunks[i].t = "s"
    THEN IF LiteralAt(line, pos, chunks[i].static_str)
         THEN MatchFrom(chunks, i + 1, line, pos + Len(chunks[i].static_str))
         ELSE NoMatch
    ELSE TryEnds(chunks, i, line, pos, NumberEnds(line, pos), 1)

TryEnds(chunks, i, line, pos, ends, k) ==
    IF k > Len(ends) THEN NoMatch
    ELSE LET rest == MatchFrom(chunks, i + 1, line, ends[k])
         IN  IF rest.ok
             THEN [ok |-> TRUE,
                   groups |-> <<SubSeq(line, pos, ends[k] - 1)>> \o rest.groups,
                   end |-> rest.end]
             ELSE TryEnds(chunks, i, line, pos, ends, k + 1)

\* fmt.regex.match(line)
RegexMatch(fmt, line) == MatchFrom(fmt.chunks, 1, line, 1)

---------------------------------------------------------------------------
(* Rendering: NumberChunk.format_str and str.format of a number; a float   *)
(* is rendered from its decimal value (ties of the rounding to the         *)
(* precision go to even).                                                  *)

\* The decimal digits of n >= 0.
RECURSIVE NatStr(_)
NatStr(n) ==
    IF n < 10 THEN <<DigitChar(n)>> ELSE NatStr(n \div 10) \o <<DigitChar(n % 10)>>

\* The last k decimal digits of n >= 0, with leading zeros.
RECURSIVE LastDigits(_, _)
LastDigits(n, k) ==
    IF k = 0 THEN <<>> ELSE LastDigits(n \div 10, k - 1) \o <<DigitChar(n % 10)>>

Abs(n) == IF n < 0 THEN -n ELSE n

Repeat(c, k) == [i \in 1..k |-> c]

\* |v| in fixed notation with k >= 1 fraction digits (the type "f").
FixedStr(v, k) ==
    LET m == Abs(v.n)
        unit == IF v.e > k THEN Pow10(v.e - k) ELSE 1
        q0 == m \div unit
        r == m % unit
        q1 == IF 2 * r > unit \/ (2 * r = unit /\ q0 % 2 = 1) THEN q0 + 1 ELSE q0
        q == IF v.e > k THEN q1 ELSE m * Pow10(k - v.e)
    IN  NatStr(q \div Pow10(k)) \o <<".">> \o LastDigits(q, k)

\* |v| of a float under an empty type: the shortest digits, one fraction
\* digit at least.
ReprStr(v) ==
    LET m == Abs(v.n)
    IN  IF v.e = 0 THEN NatStr(m) \o <<".", "0">>
        ELSE NatStr(m \div Pow10(v.e)) \o <<".">> \o LastDigits(m, v.e)

\* The digits of |v| under the chunk's fmt.
NumberStr(c, v) ==
    IF c.prec >= 0 THEN FixedStr(v, c.prec)
    ELSE IF v.f THEN ReprStr(v)
    ELSE NatStr(Abs(v.n))

\* format_str().format(value): the prefix, then the value under the format
\* spec align, plus, width, fmt.
FormatNumber(c, v) ==
    LET sign == IF v.n < 0 THEN <<"-">> ELSE c.plus
        body == NumberStr(c, v)
        pad == IF c.width > Len(sign) + Len(body)
               THEN c.width - Len(sign) - Len(body) ELSE 0
    IN  c.prefix \o
        (IF c.zero THEN sign \o Repeat("0", pad) \o body
         ELSE IF c.align = <<"<">> THEN sign \o body \o Repeat(" ", pad)
         ELSE Repeat(" ", pad) \o sign \o body)

\* NumberChunk.colorize: green above zero, red below (the escape sequences
\* are one symbol each).
colorize(val, s) ==
    IF val.n > 0 THEN <<"<green>">> \o s \o <<"<reset>">>
    ELSE IF val.n < 0 THEN <<"<red>">> \o s \o <<"<reset>">>
    ELSE s

\* NumberChunk.format of the value popped from the list
NumberFormat(c, value, colors) ==
    LET s == FormatNumber(c, value)
    IN  IF colors THEN colorize(value, s) ELSE s

\* Format.format_values: chunk i.. with the values k.. left in the list
RECURSIVE format_values(_, _, _, _, _)
format_values(chunks, i, vals, k, colors) ==
    IF i > Len(chunks) THEN <<>>
    ELSE IF chunks[i].t = "s"
    THEN chunks[i].static_str \o format_values(chunks, i + 1, vals, k, colors)
    ELSE NumberFormat(chunks[i], vals[k], colors)
         \o format_values(chunks, i + 1, vals, k + 1, colors)

\* Format.format(values) with use_colors = None: the shape's colors flag
FormatFormat(fmt, vals) == format_values(fmt.chunks, 1, vals, 1, fmt.colors)

---------------------------------------------------------------------------
(* Parser.  values is the dict of the shapes: a sequence of entries [fmt,   *)
(* vals] in insertion order, the order a dict is iterated in (Format       *)
(* defines neither __eq__ nor __hash__, so every Format object is a key of *)
(* its own and parse() always adds one).                                   *)

\* The index of the last shape of reg whose pattern matches the line, or 0.
RECURSIVE FirstMatch_Last(_, _, _)
FirstMatch_Last(reg, line, i) ==
    IF i > Len(reg) THEN 0
    ELSE LET later == FirstMatch_Last(reg, line, i + 1)
         IN  IF later # 0 THEN later
             ELSE IF RegexMatch(reg[i].fmt, line).ok THEN i ELSE 0

\* The index of the first shape of reg whose pattern matches the line, or 0.
RECURSIVE FirstMatch(_, _, _)
FirstMatch(reg, line, i) ==
    IF i > Len(reg) THEN 0
    ELSE IF RegexMatch(reg[i].fmt, line).ok THEN i
    ELSE FirstMatch(reg, line, i + 1)

\* Deltas taken the other way round, o - n.
Deltas_Reversed(vals, old_values) ==
    [i \in 1..(IF Len(vals) < Len(old_values) THEN Len(vals)
               ELSE Len(old_values)) |-> Sub(old_values[i], vals[i])]

\* [n - o for n, o in zip(values, old_values)]
Deltas(vals, old_values) ==
    [i \in 1..(IF Len(vals) < Len(old_values) THEN Len(vals)
               ELSE Len(old_values)) |-> Sub(vals[i], old_values[i])]

\* A process() that never stores the new values.
StoresNew_Never(abs) == FALSE

\* A process() that always stores the new values.
StoresNew_Always(abs) == TRUE

\* Whether process() stores the new values of a matched line.
StoresNew(abs) == ~abs

\* A parse() that does not register the shape.
parse_Unregistered(reg, line, colors) ==
    [fmt |-> FormatPlain(Format(ParseChunks(line), colors)), none |-> TRUE,
     deltas |-> <<>>, vals |-> ParseValues(line), idx |-> 0, reg |-> reg]

\* Parser.parse: the result (fmt.plain(), None, values) and the dict after.
parse(reg, line, colors) ==
    LET fmt == Format(ParseChunks(line), colors)
        vals == ParseValues(line)
    IN  [fmt |-> FormatPlain(fmt), none |-> TRUE, deltas |-> <<>>,
         vals |-> vals, idx |-> 0,
         reg |-> Append(reg, [fmt |-> fmt, vals |-> vals])]

\* Parser.process: the result (fmt, deltas, values) and the dict after; idx
\* is the place of the matched shape in the dict, 0 when the line was parsed.
process(reg, line, abs, colors) ==
    LET i == FirstMatch(reg, line, 1)
    IN  IF i = 0 THEN parse(reg, line, colors)
        ELSE LET m == RegexMatch(reg[i].fmt, line)
                 vals == [k \in 1..Len(m.groups) |-> num(m.groups[k])]
             IN  [fmt |-> reg[i].fmt, none |-> FALSE,
                  deltas |-> Deltas(vals, reg[i].vals),
                  vals |-> vals, idx |-> i,
                  reg |-> IF StoresNew(abs)
                          THEN [reg EXCEPT ![i].vals = vals] ELSE reg]

---------------------------------------------------------------------------
(* Printer. *)

\* Printer.now (time.asctime()): one symbol
Now == <<"<now>">>

\* Printer.print_separator: the banner
print_separator(ts) ==
    IF ts THEN Now \o <<"\n">> ELSE <<"-", "-", "-", " ">> \o Now \o <<"\n">>

\* Printer.print_line
print_line(ts, line) == IF ts THEN Now \o <<":", " ">> \o line ELSE line

\* A make_output that skips no delta line.
SkipDelta_Never(skip, deltas) == FALSE

\* skip_delta of make_output
SkipDelta(skip, deltas) == skip /\ \A i \in 1..Len(deltas) : IsZero(deltas[i])

\* Printer.make_output: the lines it yields, each with the place that
\* yields it.
make_output(r, ts, org, skip) ==
    IF r.none
    THEN << [kind |-> "learned", text |-> print_line(ts, FormatFormat(r.fmt, r.vals))] >>
    ELSE IF org
    THEN IF Len(r.vals) # 0
         THEN << [kind |-> "orig",
                  text |-> print_line(ts, FormatFormat(FormatPlain(r.fmt), r.vals))] >>
              \o (IF ~SkipDelta(skip, r.deltas)
                  THEN << [kind |-> "delta",
                           text |-> print_line(ts, FormatFormat(FormatWhitespace(r.fmt), r.deltas))] >>
                  ELSE <<>>)
         ELSE << [kind |-> "literal", text |-> print_line(ts, FormatFormat(r.fmt, r.vals))] >>
    ELSE IF ~SkipDelta(skip, r.deltas)
    THEN << [kind |-> "delta", text |-> print_line(ts, FormatFormat(r.fmt, r.deltas))] >>
    ELSE <<>>

\* A print_separator_if_needed without the case of several pending
\* separators.
SeparatorNeeded_OnlyMultiline(sp, multi) == sp # 0 /\ multi

\* Printer.print_separator_if_needed: whether it returns a banner
SeparatorNeeded(sp, multi) == sp > 1 \/ (sp # 0 /\ multi)

\* A separator() that never clears the multiline flag.
SeparatorMultiline_Keep(lines, multi) == multi

\* Printer.separator: the multiline flag after
SeparatorMultiline(lines, multi) == IF lines = 1 THEN FALSE ELSE multi

\* A separator() that counts the boundary markers whether the separators
\* are enabled or not.
SeparatorPending_Always(seps, sp) == sp + 1

\* Printer.separator: separators_pending after
SeparatorPending(seps, sp) == IF seps THEN sp + 1 ELSE sp

\* An output() that never sets the multiline flag.
OutputMultiline_Keep(sp, multi) == multi

\* Printer.output: the multiline flag before the chunks are made
OutputMultiline(sp, multi) == IF sp = 0 THEN TRUE ELSE multi

---------------------------------------------------------------------------
(* The state after construction, and what is recorded of the calls.        *)

NoResult == [fmt |-> Format(<<>>, FALSE), none |-> TRUE, deltas |-> <<>>,
             vals |-> <<>>, idx |-> 0]

NoSeen == [line |-> <<>>, first |-> <<>>, latest |-> <<>>]

\* burst: calls and wrote count the output() calls since the last
\* separator() (or the start) and those of them that wrote something; seps
\* counts the separator() calls since something was last written;
\* owed_calls (owed_wrote) says that at least two output() calls were made
\* (wrote something) between one separator(), or the start, and the next,
\* and that nothing was written since that separator(); alternating says
\* that up to now no two separator() and no two output() calls followed
\* each other and every output() wrote something.
NoBurst == [calls |-> 0, wrote |-> 0, seps |-> 0, owed_calls |-> FALSE,
            owed_wrote |-> FALSE, alternating |-> TRUE]

\* last: the call (op, line), the result of process() (res), what observed
\* held for the matched shape before the call (seen), the chunks output()
\* wrote (out, banner), separators_pending and multiline before the call
\* (pending, multi), burst before the call (was), and the line and the
\* deltas-is-None of the call before it (prev_line, prev_none).
NoCall == [op |-> "init", line |-> <<>>, res |-> NoResult, seen |-> NoSeen,
           out |-> <<>>, banner |-> FALSE, pending |-> 0, multi |-> FALSE,
           was |-> NoBurst, prev_op |-> "init", prev_line |-> <<>>,
           prev_none |-> FALSE]

\* applied: the function (fn); the arguments of detect (spaces, n, first,
\* flx) and the chunk it returned; the arguments of use_separators (cmd,
\* mode, skip, ts) and the flag it returned (enabled).
NoApplied == [fn |-> "none", spaces |-> <<>>, n |-> <<>>, first |-> FALSE,
              flx |-> FALSE, chunk |-> StringChunk(<<>>), cmd |-> <<>>,
              mode |-> "auto", skip |-> FALSE, ts |-> FALSE,
              enabled |-> FALSE]

\* Parser.__init__ and Printer.__init__
Constructed ==
    /\ values = <<>>
    /\ separators_pending = 0
    /\ lines_since_sep = 0
    /\ multiline = FALSE
    /\ fp = <<>>
    /\ consumed = 0
    /\ items = 0
    /\ last = NoCall
    /\ observed = <<>>
    /\ burst = NoBurst
    /\ applied = NoApplied

\* The result of process() without the dict.
Result(r) == [fmt |-> r.fmt, none |-> r.none, deltas |-> r.deltas,
              vals |-> r.vals, idx |-> r.idx]

\* observed after a call of process() on line with result r.
Observe(r, line) ==
    IF r.idx = 0
    THEN Append(observed, [line |-> line, first |-> r.vals, latest |-> r.vals])
    ELSE [observed EXCEPT ![r.idx].latest = r.vals]

Seen(r) == IF r.idx = 0 THEN NoSeen ELSE observed[r.idx]

---------------------------------------------------------------------------
(* Parser.process called on its own.                                       *)

\* The characters of the lines given to process().
Alphabet == {"a", " ", ".", "1", "2"}

\* The lines of at most k characters.
LinesUpTo(k) == UNION {[1..n -> Alphabet] : n \in 0..k}

InitParser ==
    /\ Constructed
    /\ feed = <<>>
    /\ flex = TRUE
    /\ absolute \in BOOLEAN
    /\ use_colors = FALSE
    /\ timestamps = FALSE
    /\ separators = FALSE
    /\ orig = FALSE
    /\ skip_zeros = FALSE

\* parser.process(line)
Process(line) ==
    \E r \in {process(values, line, absolute, use_colors)} :
        /\ consumed + Len(line) + 1 <= MaxInput
        /\ items' = items + 1
        /\ consumed' = consumed + Len(line) + 1
        /\ values' = r.reg
        /\ observed' = Observe(r, line)
        /\ last' = [op |-> "process", line |-> line, res |-> Result(r),
                    seen |-> Seen(r), out |-> <<>>, banner |-> FALSE,
                    pending |-> separators_pending, multi |-> multiline,
                    was |-> burst, prev_op |-> last.op,
                    prev_line |-> last.line, prev_none |-> last.res.none]
        /\ UNCHANGED <<flex, absolute, use_colors, timestamps, separators,
                       orig, skip_zeros, separators_pending, lines_since_sep,
                       multiline, fp, burst, applied, feed>>

NextParser == \E line \in LinesUpTo(MaxInput - consumed - 1) : Process(line)

SpecParser == InitParser /\ [][NextParser]_vars

---------------------------------------------------------------------------
(* The processing loop, run(feed, parser, printer): one step per item of   *)
(* the feed, a boundary marker or a line.                                  *)

\* The lines of the feed: each with its terminator.
FeedLines ==
    { <<"a", " ", "1", " ", "2", "\n">>, <<"a", " ", "2", " ", "2", "\n">>,
      <<"b", "\n">> }

Init ==
    /\ Constructed
    /\ feed = <<>>
    /\ flex = TRUE
    /\ absolute \in BOOLEAN
    /\ use_colors \in BOOLEAN
    /\ timestamps \in BOOLEAN
    /\ separators \in BOOLEAN
    /\ orig \in BOOLEAN
    /\ skip_zeros \in BOOLEAN

\* A print_chunks that writes the chunks before what was written.
print_chunks_Before(written, chunks) == chunks \o written

\* Printer.print_chunks: the chunks are written in order after what was
\* written before.
print_chunks(written, chunks) == written \o chunks

\* An output() that calls print_separator_if_needed whether it has chunks
\* to write or not.
OutputPending_Always(sp, wrote) == 0

\* Printer.output: separators_pending after; print_separator_if_needed,
\* which resets it, is called only when there are chunks to write.
OutputPending(sp, wrote) == IF wrote THEN 0 ELSE sp

\* An output() that goes on counting the lines over a banner.
OutputLinesSinceSep_KeepCount(lines, wrote, banner) ==
    IF wrote THEN lines + 1 ELSE lines

\* Printer.output: lines_since_sep after; print_separator_if_needed resets
\* it when it returns a banner, and output() adds one when there are chunks
\* to write.
OutputLinesSinceSep(lines, wrote, banner) ==
    IF wrote THEN (IF banner THEN 0 ELSE lines) + 1 ELSE lines

\* A plain() that clears the sign flag of the chunks it is called on.
ViewedFormat_InPlace(fmt) == FormatPlain(fmt)

\* Format.plain, Format.whitespace: the shape they are called on, after the
\* call; they build a new Format and new chunks and assign nothing to it.
ViewedFormat(fmt) == fmt

\* Printer.make_output: the dict after; with show-original it takes the
\* plain and the whitespace view of the shape process() returned, which for
\* a matched line is the registered object.
AfterOutput(reg, idx, org) ==
    IF idx # 0 /\ org THEN [reg EXCEPT ![idx].fmt = ViewedFormat(@)] ELSE reg

\* Printer.output: the chunks it writes, the banner first when there is one.
OutputChunks(made, banner, ts) ==
    (IF banner THEN << [kind |-> "banner", text |-> print_separator(ts)] >>
     ELSE <<>>) \o made

\* run: the feed yields the boundary marker; printer.separator()
Separator ==
    /\ items < MaxItems
    /\ items' = items + 1
    /\ multiline' = IF separators
                    THEN SeparatorMultiline(lines_since_sep, multiline)
                    ELSE multiline
    /\ separators_pending' = SeparatorPending(separators, separators_pending)
    /\ last' = [NoCall EXCEPT !.op = "separator",
                              !.pending = separators_pending,
                              !.multi = multiline, !.was = burst,
                              !.prev_op = last.op,
                              !.prev_line = last.line,
                              !.prev_none = last.res.none]
    /\ burst' = [calls |-> 0, wrote |-> 0, seps |-> burst.seps + 1,
                 owed_calls |-> burst.owed_calls \/ burst.calls >= 2,
                 owed_wrote |-> burst.owed_wrote \/ burst.wrote >= 2,
                 alternating |-> burst.alternating /\ last.op # "separator"]
    /\ UNCHANGED <<values, flex, absolute, use_colors, timestamps, separators,
                   orig, skip_zeros, lines_since_sep, fp, consumed, observed,
                   applied, feed>>

\* run: the feed yields a line; printer.output(*parser.process(line))
Line(line) ==
    \E r \in {process(values, line, absolute, use_colors)} :
    \E made \in {make_output(Result(r), timestamps, orig, skip_zeros)} :
    LET multi == OutputMultiline(separators_pending, multiline)
        wrote == made # <<>>
        banner == wrote /\ SeparatorNeeded(separators_pending, multi)
        chunks == OutputChunks(made, banner, timestamps)
    IN  /\ items < MaxItems
        /\ items' = items + 1
        /\ consumed' = consumed + Len(line)
        /\ values' = AfterOutput(r.reg, r.idx, orig)
        /\ observed' = Observe(r, line)
        /\ multiline' = multi
        /\ separators_pending' = OutputPending(separators_pending, wrote)
        /\ lines_since_sep' = OutputLinesSinceSep(lines_since_sep, wrote, banner)
        /\ fp' = print_chunks(fp, [i \in 1..Len(chunks) |->
                                      [item |-> items + 1,
                                       kind |-> chunks[i].kind,
                                       text |-> chunks[i].text]])
        /\ last' = [op |-> "line", line |-> line, res |-> Result(r),
                    seen |-> Seen(r), out |-> chunks, banner |-> banner,
                    pending |-> separators_pending, multi |-> multiline,
                    was |-> burst, prev_op |-> last.op,
                    prev_line |-> last.line, prev_none |-> last.res.none]
        /\ burst' = [calls |-> burst.calls + 1,
                     wrote |-> burst.wrote + (IF wrote THEN 1 ELSE 0),
                     seps |-> IF wrote THEN 0 ELSE burst.seps,
                     owed_calls |-> burst.owed_calls /\ ~wrote,
                     owed_wrote |-> burst.owed_wrote /\ ~wrote,
                     alternating |-> burst.alternating /\ last.op # "line"
                                     /\ wrote]
        /\ UNCHANGED <<flex, absolute, use_colors, timestamps, separators, orig,
                       skip_zeros, applied, feed>>

RunLine == \E line \in FeedLines : Line(line)

Next == Separator \/ RunLine

Spec == Init /\ [][Next]_vars

---------------------------------------------------------------------------
(* Properties of Parser.process (checked under SpecParser).                *)

IsMatch == last.op = "process" /\ ~last.res.none

\* vals - base, position by position
Minus(vals, base) == [k \in 1..Len(vals) |-> Sub(vals[k], base[k])]

NonZero(deltas) == \E k \in 1..Len(deltas) : ~IsZero(deltas[k])

\* C1: in relative mode every delta process() returns for a matched line is
\* the new value minus the value observed by the preceding call that
\* matched or learned the same shape, one delta per numeric position.
C1_RelativeDeltas ==
    (~absolute /\ IsMatch) =>
        /\ Len(last.res.deltas) = Len(last.res.vals)
        /\ Len(last.seen.latest) = Len(last.res.vals)
        /\ last.res.deltas = Minus(last.res.vals, last.seen.latest)

\* A third line of one shape in relative mode, with a value other than the
\* first one before it and a delta other than zero.
C1_Witness ==
    /\ ~absolute /\ IsMatch
    /\ last.seen.latest # last.seen.first
    /\ NonZero(last.res.deltas)

\* C2: in absolute mode the values stored for a shape stay those of the line
\* it was learned from, and every delta process() returns is the new value
\* minus that first observation.
C2_AbsoluteBaseline ==
    absolute =>
        /\ Len(values) = Len(observed)
        /\ \A i \in 1..Len(values) : values[i].vals = observed[i].first
        /\ IsMatch =>
              /\ Len(last.seen.first) = Len(last.res.vals)
              /\ last.res.deltas = Minus(last.res.vals, last.seen.first)

\* A third line of one shape in absolute mode, the second having had other
\* values than the first.
C2_Witness ==
    /\ absolute /\ IsMatch
    /\ last.seen.latest # last.seen.first
    /\ NonZero(last.res.deltas)

\* C3: a line that was just learned (deltas None) and is processed again at
\* once matches a shape, with a delta of zero for every numeric field
\* (relative mode).
C3_SameLineTwice ==
    (~absolute /\ last.op = "process" /\ last.prev_op = "process"
       /\ last.prev_none /\ last.prev_line = last.line) =>
        /\ ~last.res.none
        /\ Len(last.res.deltas) = Len(ParseValues(last.line))
        /\ \A k \in 1..Len(last.res.deltas) : IsZero(last.res.deltas[k])

\* A line with a numeric field learned and processed again, after another
\* shape was learned.
C3_Witness ==
    /\ ~absolute /\ last.op = "process" /\ last.prev_op = "process"
    /\ last.prev_none /\ last.prev_line = last.line
    /\ Len(last.res.deltas) >= 1
    /\ last.res.idx >= 2

\* Whether the pattern of chunks i.. can match the line from pos to its end.
RECURSIVE FullMatchFrom(_, _, _, _)
FullMatchFrom(chunks, i, line, pos) ==
    IF i > Len(chunks) THEN pos = Len(line) + 1
    ELSE IF chunks[i].t = "s"
    THEN /\ LiteralAt(line, pos, chunks[i].static_str)
         /\ FullMatchFrom(chunks, i + 1, line, pos + Len(chunks[i].static_str))
    ELSE \E k \in 1..Len(NumberEnds(line, pos)) :
             FullMatchFrom(chunks, i + 1, line, NumberEnds(line, pos)[k])

\* C10: process() selects a shape only if the shape's pattern matches the
\* line from its start to its end.
C10_WholeLineMatch ==
    IsMatch => FullMatchFrom(last.res.fmt.chunks, 1, last.line, 1)

---------------------------------------------------------------------------
(* Properties of Printer.output and of run (checked under Spec).           *)

IsOutput == last.op = "line"

\* The lines of the chunks written by the last output(), the banner left out.
Body(out) == SelectSeq(out, LAMBDA c : c.kind # "banner")

HasBanner(out) == \E i \in 1..Len(out) : out[i].kind = "banner"

AllZero(deltas) == \A k \in 1..Len(deltas) : IsZero(deltas[k])

\* C4: with skip-zero on and show-original off, output() writes nothing for
\* a matched line whose deltas are all zero, the one delta line for a
\* matched line with a delta other than zero, and the line itself for a
\* learned line.
C4_SkipZero ==
    (skip_zeros /\ ~orig /\ IsOutput) =>
        /\ (~last.res.none /\ AllZero(last.res.deltas)) => last.out = <<>>
        /\ (~last.res.none /\ ~AllZero(last.res.deltas)) =>
              Body(last.out) =
                 << [kind |-> "delta",
                     text |-> print_line(timestamps,
                                 FormatFormat(last.res.fmt, last.res.deltas))] >>
        /\ last.res.none =>
              Body(last.out) =
                 << [kind |-> "learned",
                     text |-> print_line(timestamps,
                                 FormatFormat(last.res.fmt, last.res.vals))] >>

\* A line with a delta of zero written nowhere, after a delta line was
\* written.
C4_Witness ==
    /\ skip_zeros /\ ~orig /\ IsOutput
    /\ ~last.res.none /\ Len(last.res.deltas) >= 1 /\ AllZero(last.res.deltas)
    /\ last.out = <<>>
    /\ \E i \in 1..Len(fp) : fp[i].kind = "delta"

\* C5: in every configuration, every occurrence of a line without numeric
\* tokens is written, as its literal text.
C5_LiteralLineWritten ==
    (IsOutput /\ FindToken(last.line, 1) = 0) =>
        /\ Len(Body(last.out)) = 1
        /\ Body(last.out)[1].text = print_line(timestamps, last.line)

\* C6: with separators on, as long as separator() and output() calls
\* alternate strictly and every output() writes something, no banner is
\* written.
C6_AlternatingNoBanner ==
    (separators /\ burst.alternating) =>
        \A i \in 1..Len(fp) : fp[i].kind # "banner"

\* Two separator() and two output() calls at least, alternating.
C6_Witness ==
    /\ separators /\ burst.alternating
    /\ items >= 4 /\ Len(fp) >= 2

\* C7 as claimed: with separators on, after two or more output() calls
\* between two separator() calls (or before the first), the first output
\* written after the later separator() has a banner before it.
C7_BannerAfterCalls ==
    (separators /\ IsOutput /\ last.out # <<>> /\ last.was.owed_calls) =>
        HasBanner(last.out)

\* C7 amended: the same of two or more output() calls that each wrote
\* something.
C7_BannerAfterWritten ==
    (separators /\ IsOutput /\ last.out # <<>> /\ last.was.owed_wrote) =>
        /\ HasBanner(last.out)
        /\ last.out[1].kind = "banner"

\* A banner written after a burst of two written lines, with skip-zero on.
C7_Witness ==
    /\ separators /\ skip_zeros /\ IsOutput /\ last.out # <<>>
    /\ last.was.owed_wrote
    /\ HasBanner(last.out)

\* C8: an output() call that writes something writes a banner first iff
\* separators_pending > 1, or separators_pending = 1 and multiline, at the
\* call; so two separator() calls with nothing written between them give a
\* banner.
C8_BannerCondition ==
    (IsOutput /\ last.out # <<>>) =>
        /\ HasBanner(last.out) <=>
              (last.pending > 1 \/ (last.pending = 1 /\ last.multi))
        /\ (separators /\ last.was.seps >= 2) => HasBanner(last.out)

\* A banner after two separator() calls with a suppressed line between them,
\* every burst being a single line.
C8_Witness ==
    /\ separators /\ skip_zeros /\ IsOutput
    /\ HasBanner(last.out)
    /\ last.was.seps >= 2 /\ last.was.calls >= 1
    /\ ~last.multi

Rank(kind) == IF kind = "banner" THEN 0 ELSE IF kind = "delta" THEN 2 ELSE 1

\* C9: what is written for an input line comes before what is written for
\* the next, and within one output() the order is the banner, the plain
\* render (with show-original), the delta render.
C9_OutputOrder ==
    /\ \A i, j \in 1..Len(fp) :
          i < j => \/ fp[i].item < fp[j].item
                   \/ /\ fp[i].item = fp[j].item
                      /\ Rank(fp[i].kind) < Rank(fp[j].kind)
    /\ \A i \in 1..Len(fp) : fp[i].item <= items
    /\ (IsOutput /\ last.out # <<>>) =>
          /\ Len(fp) >= Len(last.out)
          /\ \A i \in 1..Len(last.out) :
                LET e == fp[Len(fp) - Len(last.out) + i]
                IN  e.item = items /\ e.kind = last.out[i].kind
                    /\ e.text = last.out[i].text
    /\ (IsOutput /\ orig /\ ~last.res.none /\ Len(last.res.vals) > 0) =>
          /\ Body(last.out)[1].kind = "orig"
          /\ Body(last.out)[1].text =
                print_line(timestamps,
                    FormatFormat(FormatPlain(last.res.fmt), last.res.vals))

\* An output() that wrote a banner, the plain render and the delta render,
\* after another line was written.
C9_Witness ==
    /\ IsOutput /\ orig
    /\ Len(last.out) = 3
    /\ Len(fp) > 3

---------------------------------------------------------------------------
(* Properties of the chunking rule and of matching (checked under          *)
(* SpecParser).                                                            *)

\* The numeric tokens of a line, as parse() splits it.
Tokens(line) ==
    LET ns == SelectSeq(Groups(line, 1), LAMBDA g : g.isnum)
    IN  [i \in 1..Len(ns) |-> ns[i].number]

\* C11: process() never matches a line against a shape whose numeric chunks
\* differ in number from the numeric tokens of the line; such a line is
\* learned as a new shape.  Stated of the matches that cover the whole
\* line (the others are those of C10).
C11_TokenCountMatch ==
    (IsMatch /\ FullMatchFrom(last.res.fmt.chunks, 1, last.line, 1)) =>
        Len(Tokens(last.line)) = Len(NumberChunks(last.res.fmt))


---------------------------------------------------------------------------
(* Parser.parse and Parser.process called on their own, with either flex   *)
(* setting and lines that hold a leading zero and a tab.                   *)

\* The lines given to parse() hold at most MaxParse characters in all, each
\* line counting one more than its length.
MaxParse == 6

\* The characters of the lines given to parse().
ParseAlphabet == {"a", " ", "\t", ".", "0", "1"}

ParseLines(k) == UNION {[1..n -> ParseAlphabet] : n \in 0..k}

InitParse ==
    /\ Constructed
    /\ feed = <<>>
    /\ flex \in BOOLEAN
    /\ absolute = FALSE
    /\ use_colors = FALSE
    /\ timestamps = FALSE
    /\ separators = FALSE
    /\ orig = FALSE
    /\ skip_zeros = FALSE

\* parser.parse(line)
Parse(line) ==
    \E r \in {parse(values, line, use_colors)} :
        /\ consumed + Len(line) + 1 <= MaxParse
        /\ items' = items + 1
        /\ consumed' = consumed + Len(line) + 1
        /\ values' = r.reg
        /\ observed' = Observe(r, line)
        /\ last' = [op |-> "parse", line |-> line, res |-> Result(r),
                    seen |-> NoSeen, out |-> <<>>, banner |-> FALSE,
                    pending |-> separators_pending, multi |-> multiline,
                    was |-> burst, prev_op |-> last.op,
                    prev_line |-> last.line, prev_none |-> last.res.none]
        /\ UNCHANGED <<flex, absolute, use_colors, timestamps, separators,
                       orig, skip_zeros, separators_pending, lines_since_sep,
                       multiline, fp, burst, applied, feed>>

NextParse ==
    \E line \in ParseLines(MaxParse - consumed - 1) :
        Parse(line) \/ Process(line)

SpecParse == InitParse /\ [][NextParse]_vars


---------------------------------------------------------------------------
(* Properties of Parser.parse and NumberChunk.detect (checked under        *)
(* SpecParse).                                                             *)

\* The last call learned its line: parse(), or a process() that matched no
\* shape.
IsLearned == last.op \in {"parse", "process"} /\ last.res.none

\* The shape returned for a learned line, rendered with the values
\* returned with it.
PlainRender == FormatFormat(last.res.fmt, last.res.vals)

\* The part of a numeric token before its decimal point.
Whole(n) == IF HasDot(n) THEN SubSeq(n, 1, DotPos(n, 1) - 1) ELSE n

\* The least width flex gives a right-justified token: 2 for an integer,
\* the number of fraction digits plus 3 for a decimal.
FlexWidth(n) == IF HasDot(n) THEN Len(n) - DotPos(n, 1) + 3 ELSE 2

\* Whether group i of the split line is rendered as it was written: the
\* whitespace before its token is spaces only; the token, when it is first
\* on the line or follows whitespace, is with its spaces but one no narrower
\* than the flex width; and a token with a leading zero follows one space
\* at most.
ExactGroup(gs, i) ==
    LET g == gs[i]
        right == g.spaces # <<>> \/ (i = 1 /\ g.prefix = <<>>)
        held == Len(g.number)
                + (IF g.spaces # <<>> THEN Len(g.spaces) - 1 ELSE 0)
        lead == Len(Whole(g.number)) > 1 /\ g.number[1] = "0"
    IN  g.isnum =>
            /\ \A k \in 1..Len(g.spaces) : g.spaces[k] = " "
            /\ right => held >= FlexWidth(g.number)
            /\ lead => Len(g.spaces) <= 1

Exact(line) ==
    LET gs == Groups(line, 1) IN \A i \in 1..Len(gs) : ExactGroup(gs, i)

\* C12 as claimed: with flex enabled, the shape and the values returned for
\* a freshly learned line render back to the line, character for character.
C12_RoundTrip == (flex /\ IsLearned) => PlainRender = last.line

\* C12 amended: they render back to the line exactly when no token is
\* widened by flex, follows whitespace other than spaces, or has a leading
\* zero after two or more spaces.
C12_RoundTripExact ==
    (flex /\ IsLearned) => (PlainRender = last.line <=> Exact(last.line))

\* A learned line with a decimal and an integer token, a leading zero and a
\* literal, rendered back as it was.
C12_Witness ==
    /\ flex /\ IsLearned /\ PlainRender = last.line
    /\ \E i, j, k \in 1..Len(last.res.fmt.chunks) :
          /\ last.res.fmt.chunks[i].prec >= 1
          /\ last.res.fmt.chunks[j].zero
          /\ last.res.fmt.chunks[k].t = "s"


\* The width each numeric token of a line holds: its length, and its
\* leading whitespace but one character.
HeldWidths(line) ==
    LET ns == SelectSeq(Groups(line, 1), LAMBDA g : g.isnum)
    IN  [i \in 1..Len(ns) |->
            Len(ns[i].number)
            + (IF ns[i].spaces # <<>> THEN Len(ns[i].spaces) - 1 ELSE 0)]

\* C13: with flex disabled, the shape parse() or process() learns from a
\* line widens no token: the width of every numeric chunk is the width the
\* token holds in the line.
C13_NoFlexNoWidening ==
    (~flex /\ IsLearned) =>
        /\ Len(NumberChunks(last.res.fmt)) = Len(HeldWidths(last.line))
        /\ \A k \in 1..Len(NumberChunks(last.res.fmt)) :
              NumberChunks(last.res.fmt)[k].width = HeldWidths(last.line)[k]


---------------------------------------------------------------------------
(* The static functions called on their own, one call in a behaviour:      *)
(* NumberChunk.detect and use_separators.                                  *)

\* The whitespace before a token holds at most MaxSpaces characters, its
\* whole part at most MaxWhole digits, its fraction at most MaxFrac; a
\* command holds at most MaxCmd words.
MaxSpaces == 2
MaxWhole == 3
MaxFrac == 2
MaxCmd == 2

SeqsUpTo(S, lo, hi) == UNION {[1..n -> S] : n \in lo..hi}

\* The arguments of detect: the whitespace run before the token, and the
\* token, digits with an optional fraction.
SpaceRuns == SeqsUpTo({" ", "\t"}, 0, MaxSpaces)

NumberTexts ==
    LET D == {"0", "1", "9"}
    IN  { w \o f : w \in SeqsUpTo(D, 1, MaxWhole),
                   f \in {<<>>} \cup { <<".">> \o d : d \in SeqsUpTo(D, 1, MaxFrac) } }

\* The arguments of use_separators: the words of the command line (none when
\* standard input is read), and the separator mode.
Commands == SeqsUpTo({"ls", "-l"}, 0, MaxCmd)

Modes == {"auto", "always", "never"}

\* A use_separators whose auto mode does not look at the timestamps.
use_separators_NoTimestamps(cmd, mode, skip, ts) ==
    IF cmd # <<>> THEN mode # "never"
    ELSE mode = "always" \/ (mode = "auto" /\ skip)

\* use_separators
use_separators(cmd, mode, skip, ts) ==
    IF cmd # <<>> THEN mode # "never"
    ELSE mode = "always" \/ (mode = "auto" /\ skip /\ ~ts)

\* NumberChunk.detect(spaces, n, first, flex=flx)
Detect(spaces, n, first, flx) ==
    /\ applied' = [NoApplied EXCEPT !.fn = "detect", !.spaces = spaces,
                                    !.n = n, !.first = first, !.flx = flx,
                                    !.chunk = detect(spaces, n, first, flx)]
    /\ UNCHANGED <<values, flex, absolute, use_colors, timestamps, separators,
                   orig, skip_zeros, separators_pending, lines_since_sep,
                   multiline, fp, consumed, items, last, observed, burst,
                   feed>>

\* use_separators(cmd, mode, skip, ts)
UseSeparators(cmd, mode, skip, ts) ==
    /\ applied' = [NoApplied EXCEPT !.fn = "use_separators", !.cmd = cmd,
                                    !.mode = mode, !.skip = skip, !.ts = ts,
                                    !.enabled = use_separators(cmd, mode, skip, ts)]
    /\ UNCHANGED <<values, flex, absolute, use_colors, timestamps, separators,
                   orig, skip_zeros, separators_pending, lines_since_sep,
                   multiline, fp, consumed, items, last, observed, burst,
                   feed>>

InitStatic ==
    /\ Constructed
    /\ feed = <<>>
    /\ flex = TRUE
    /\ absolute = FALSE
    /\ use_colors = FALSE
    /\ timestamps = FALSE
    /\ separators = FALSE
    /\ orig = FALSE
    /\ skip_zeros = FALSE

\* The one call of the behaviour.
DetectAny ==
    /\ applied.fn = "none"
    /\ \E spaces \in SpaceRuns, n \in NumberTexts, first \in BOOLEAN,
          flx \in BOOLEAN : Detect(spaces, n, first, flx)

UseSeparatorsAny ==
    /\ applied.fn = "none"
    /\ \E cmd \in Commands, mode \in Modes, skip \in BOOLEAN, ts \in BOOLEAN :
          UseSeparators(cmd, mode, skip, ts)

NextStatic == DetectAny \/ UseSeparatorsAny

SpecStatic == InitStatic /\ [][NextStatic]_vars


---------------------------------------------------------------------------
(* Properties of NumberChunk.detect and use_separators (checked under      *)
(* SpecStatic).                                                            *)

IsDetect == applied.fn = "detect"

\* The width the token holds: its length, and its whitespace but one
\* character.
Held(spaces, n) == Len(n) + (IF spaces # <<>> THEN Len(spaces) - 1 ELSE 0)

\* The token has a leading zero before further digits of its whole part.
LeadingZero(n) == Len(Whole(n)) > 1 /\ n[1] = "0"

\* C14 as claimed: for a token with no whitespace before it that is not
\* first on the line detect gives left-justified alignment and the width
\* len(n), extended to 2 if flex is on and n is an integer; for a token
\* preceded by whitespace the prefix is one space and the width is len(n)
\* plus the number of whitespace characters minus one.
C14_DetectWidth ==
    IsDetect =>
        /\ (applied.spaces = <<>> /\ ~applied.first) =>
              /\ applied.chunk.align = <<"<">>
              /\ applied.chunk.width =
                    (IF applied.flx /\ ~HasDot(applied.n) /\ Len(applied.n) < 2
                     THEN 2 ELSE Len(applied.n))
        /\ applied.spaces # <<>> =>
              /\ applied.chunk.prefix = <<" ">>
              /\ applied.chunk.width = Held(applied.spaces, applied.n)

\* C14 amended: for a token with no whitespace before it that is not first
\* on the line the width is len(n), with flex on or off, and the alignment
\* is left-justified unless the token has a leading zero; for a token
\* preceded by whitespace the prefix is one space, the alignment is
\* right-justified and the width is len(n) plus the number of whitespace
\* characters minus one, raised with flex on to 2 for an integer and to the
\* number of fraction digits plus 3 for a decimal.
C14_DetectWidthFlex ==
    IsDetect =>
        /\ (applied.spaces = <<>> /\ ~applied.first) =>
              /\ applied.chunk.prefix = <<>>
              /\ applied.chunk.align =
                    (IF LeadingZero(applied.n) THEN <<>> ELSE <<"<">>)
              /\ applied.chunk.width = Len(applied.n)
        /\ applied.spaces # <<>> =>
              /\ applied.chunk.prefix = <<" ">>
              /\ applied.chunk.align = <<>>
              /\ applied.chunk.width =
                    (IF applied.flx
                        /\ Held(applied.spaces, applied.n) < FlexWidth(applied.n)
                     THEN FlexWidth(applied.n)
                     ELSE Held(applied.spaces, applied.n))

\* detect of a single digit with no whitespace before it and not first, with
\* flex on: the width stays 1.
C14_Witness ==
    /\ IsDetect /\ applied.flx /\ ~applied.first
    /\ applied.spaces = <<>> /\ Len(applied.n) = 1
    /\ applied.chunk.width = 1


\* The token's own value rendered by the chunk detect returned, plain.
TokenRender == FormatNumber(ChunkPlain(applied.chunk), num(applied.n))

\* C15: for every token whose whole part (the token itself for an integer)
\* has more than one digit and starts with "0", detect yields zero-padded
\* rendering with the alignment marker cleared, with flex on or off,
\* preceded by whitespace or not, first on the line or not: the token is
\* rendered after its prefix filled with zeros up to the width.
C15_ZeroPad ==
    (IsDetect /\ LeadingZero(applied.n)) =>
        /\ applied.chunk.zero
        /\ applied.chunk.align = <<>>
        /\ applied.chunk.width >= Len(applied.n)
        /\ TokenRender =
              applied.chunk.prefix
              \o Repeat("0", applied.chunk.width - Len(applied.n))
              \o applied.n

\* detect of a decimal with a leading zero, preceded by two whitespace
\* characters, not first, with flex off.
C15_Witness ==
    /\ IsDetect /\ LeadingZero(applied.n) /\ HasDot(applied.n)
    /\ Len(applied.spaces) = 2 /\ ~applied.first /\ ~applied.flx
    /\ applied.chunk.zero
    /\ Len(TokenRender) > Len(applied.n) + 1


---------------------------------------------------------------------------
(* run() on the feed of three cpu lines, in order, with boundary markers   *)
(* anywhere between them (show-original and skip-zero off, relative mode,  *)
(* no colors).                                                             *)

CpuFeed ==
    << <<"c", "p", "u", ":", " ", "1", "0", " ", "2", "0">>,
       <<"c", "p", "u", ":", " ", "1", "2", " ", "1", "9">>,
       <<"c", "p", "u", ":", " ", "1", "2", " ", "2", "5">> >>

\* The number of characters of the first k lines of the feed.
RECURSIVE CpuChars(_)
CpuChars(k) == IF k = 0 THEN 0 ELSE CpuChars(k - 1) + Len(CpuFeed[k])

\* The number of lines of the feed consumed so far.
CpuFed == CHOOSE k \in 0..Len(CpuFeed) : consumed = CpuChars(k)

InitCpu ==
    /\ Constructed
    /\ feed = <<>>
    /\ flex = TRUE
    /\ absolute = FALSE
    /\ use_colors = FALSE
    /\ timestamps \in BOOLEAN
    /\ separators \in BOOLEAN
    /\ orig = FALSE
    /\ skip_zeros = FALSE

\* run: the feed yields its next line
CpuLine == CpuFed < Len(CpuFeed) /\ Line(CpuFeed[CpuFed + 1])

NextCpu == Separator \/ CpuLine

SpecCpu == InitCpu /\ [][NextCpu]_vars

\* The texts of the lines written so far, the banners left out.
Written == [i \in 1..Len(Body(fp)) |-> Body(fp)[i].text]

\* C16 as claimed: the three cpu lines processed in order write exactly
\* "cpu: 10 20", "cpu: +2 -1" and "cpu:  +0 +6", the last with two spaces
\* after the colon (each behind its timestamp when timestamps are on).
C16_CpuScenario ==
    CpuFed = 3 =>
        Written =
           << print_line(timestamps, <<"c", "p", "u", ":", " ", "1", "0", " ", "2", "0">>),
              print_line(timestamps, <<"c", "p", "u", ":", " ", "+", "2", " ", "-", "1">>),
              print_line(timestamps, <<"c", "p", "u", ":", " ", " ", "+", "0", " ", "+", "6">>) >>

\* C16 amended: they write exactly "cpu: 10 20", "cpu: +2 -1" and
\* "cpu: +0 +6", the last with one space after the colon.
C16_CpuScenarioOneSpace ==
    CpuFed = 3 =>
        Written =
           << print_line(timestamps, <<"c", "p", "u", ":", " ", "1", "0", " ", "2", "0">>),
              print_line(timestamps, <<"c", "p", "u", ":", " ", "+", "2", " ", "-", "1">>),
              print_line(timestamps, <<"c", "p", "u", ":", " ", "+", "0", " ", "+", "6">>) >>

\* The three lines processed and written, without timestamps.
C16_Witness ==
    /\ CpuFed = 3 /\ ~timestamps /\ Len(Written) = 3
    /\ last.op = "line" /\ last.line = CpuFeed[3]
    /\ last.res.deltas = <<[f |-> FALSE, n |-> 0, e |-> 0],
                           [f |-> FALSE, n |-> 6, e |-> 0]>>


IsUseSeparators == applied.fn = "use_separators"

\* C17: use_separators enables the separators, when a command is given,
\* unless the mode is "never"; and when standard input is read (no
\* command), iff the mode is "always", or the mode is "auto" and skip-zeros
\* is on and timestamps are off.
C17_UseSeparators ==
    IsUseSeparators =>
        /\ applied.cmd # <<>> => (applied.enabled <=> applied.mode # "never")
        /\ applied.cmd = <<>> =>
              (applied.enabled <=>
                  \/ applied.mode = "always"
                  \/ applied.mode = "auto" /\ applied.skip /\ ~applied.ts)

\* Standard input, mode "auto", skip-zeros and timestamps both on: the
\* separators are disabled.
C17_Witness ==
    /\ IsUseSeparators /\ applied.cmd = <<>> /\ applied.mode = "auto"
    /\ applied.skip /\ applied.ts /\ ~applied.enabled


---------------------------------------------------------------------------
(* Properties of the Printer state (checked under Spec).                   *)

\* C18: an output() call that produces no line writes nothing and leaves
\* separators_pending and lines_since_sep as they were; an output() call
\* that produces output resets separators_pending to 0 and adds one to
\* lines_since_sep (counted from 0 when it writes a banner), one for the
\* call even when it writes two lines; and no other call resets the one or
\* changes the other.
C18_SuppressedOutputFrame ==
    [][ /\ (IsOutput' /\ last'.out = <<>>) =>
              /\ fp' = fp
              /\ separators_pending' = separators_pending
              /\ lines_since_sep' = lines_since_sep
        /\ (IsOutput' /\ last'.out # <<>>) =>
              /\ separators_pending' = 0
              /\ lines_since_sep' =
                    (IF HasBanner(last'.out) THEN 0 ELSE lines_since_sep) + 1
        /\ ~IsOutput' =>
              /\ fp' = fp
              /\ lines_since_sep' = lines_since_sep
              /\ separators_pending' >= separators_pending
      ]_vars

\* A suppressed output() after two output() calls that wrote and a
\* separator().
C18_Witness ==
    /\ IsOutput /\ last.out = <<>> /\ ~last.res.none
    /\ separators_pending >= 1 /\ lines_since_sep = 2
    /\ Len(fp) >= 2


\* C19: with the separators disabled, separator() leaves every variable of
\* the Printer as it was, separators_pending stays 0, and no banner is ever
\* written, whatever the sequence of separator() and output() calls.
C19_SeparatorsDisabled ==
    /\ [](~separators =>
            /\ separators_pending = 0
            /\ \A i \in 1..Len(fp) : fp[i].kind # "banner")
    /\ [][(~separators /\ last'.op = "separator") =>
            UNCHANGED <<fp, timestamps, separators, orig, skip_zeros,
                        separators_pending, lines_since_sep, multiline>>]_vars

\* With the separators disabled: two separator() calls after two written
\* lines, then a third written line.
C19_Witness ==
    /\ ~separators /\ IsOutput /\ last.out # <<>>
    /\ last.was.seps >= 2 /\ lines_since_sep >= 3


---------------------------------------------------------------------------
(* Properties of the dict of the shapes (checked under SpecParser).        *)

\* The places in the dict of the shapes whose pattern matches the line.
Matching(reg, line) == {j \in 1..Len(reg) : RegexMatch(reg[j].fmt, line).ok}

\* C20: process() selects the first shape, in the order the shapes were
\* registered, whose pattern matches the line, even if a later one matches
\* too; it changes the stored values of that shape at most, removes and
\* reorders no shape, and adds a shape, one, only when no shape matched.
C20_FirstMatchFrame ==
    [][ last'.op = "process" =>
          LET i == last'.res.idx
              m == Matching(values, last'.line)
          IN  /\ m = {} =>
                    /\ i = 0 /\ last'.res.none
                    /\ Len(values') = Len(values) + 1
              /\ m # {} =>
                    /\ i \in m /\ \A j \in m : i <= j
                    /\ ~last'.res.none
                    /\ last'.res.fmt = values[i].fmt
                    /\ Len(values') = Len(values)
              /\ \A j \in 1..Len(values) :
                    /\ values'[j].fmt = values[j].fmt
                    /\ j # i => values'[j].vals = values[j].vals
      ]_vars

\* A line with a number matched by the first shape and by a later one; the
\* values stored for the first are replaced.
C20_Witness ==
    /\ IsMatch /\ last.res.idx = 1
    /\ \E j \in 2..Len(values) : RegexMatch(values[j].fmt, last.line).ok
    /\ Len(last.res.vals) >= 1
    /\ NonZero(last.res.deltas)


---------------------------------------------------------------------------
(* Properties of the dict of the shapes under parse() and process()        *)
(* (checked under SpecParse).                                              *)

\* C21: after any sequence of parse() and process() calls the dict holds no
\* two entries whose shapes have the same chunks (the same pattern):
\* learning a line again adds no second entry.
C21_NoDuplicateShapes ==
    \A i, j \in 1..Len(values) :
        i # j => values[i].fmt.chunks # values[j].fmt.chunks


---------------------------------------------------------------------------
(* Properties of the registered shapes and of run (checked under Spec).    *)

\* C22: once a shape is registered no call changes its chunks, the number
\* and the order of its numeric chunks or the rendering rule of any of them
\* (prefix, alignment, sign flag, width, precision), and no shape leaves the
\* dict: the plain and whitespace views output() takes are other objects,
\* and only the stored values vary.
C22_ShapeImmutable ==
    [][ /\ Len(values') >= Len(values)
        /\ \A j \in 1..Len(values) :
              /\ values'[j].fmt = values[j].fmt
              /\ Len(values'[j].vals) = Len(values[j].vals)
      ]_vars

\* With show-original on, a matched line written as its plain render and
\* its delta render, the values stored for its shape having changed.
C22_Witness ==
    /\ IsOutput /\ orig /\ ~last.res.none
    /\ Len(Body(last.out)) = 2
    /\ NonZero(last.res.deltas)
    /\ values[last.res.idx].vals # observed[last.res.idx].first
    /\ \E i \in 1..Len(values[last.res.idx].fmt.chunks) :
          values[last.res.idx].fmt.chunks[i].plus = <<"+">>


---------------------------------------------------------------------------
(* run(feed, parser, printer) on a feed given as a whole: a finite         *)
(* sequence of lines and boundary markers.                                 *)

\* The boundary marker (the object separator): a line no input line equals.
separator == <<"<separator>">>

\* The feeds: at most MaxItems items.
Feeds == UNION {[1..n -> FeedLines \cup {separator}] : n \in 0..MaxItems}

InitRun ==
    /\ Constructed
    /\ feed \in Feeds
    /\ flex = TRUE
    /\ absolute = FALSE
    /\ use_colors = FALSE
    /\ timestamps = FALSE
    /\ separators \in BOOLEAN
    /\ orig = FALSE
    /\ skip_zeros \in BOOLEAN

\* A loop that takes the items from the end of the feed.
NextItem_Backwards(fd, n) == fd[Len(fd) - n]

\* for line in feed: the item of the iteration after n items were consumed
NextItem(fd, n) == fd[n + 1]

\* run: the item is the boundary marker
RunSeparator ==
    /\ items < Len(feed)
    /\ NextItem(feed, items) = separator
    /\ Separator

\* run: the item is a line
RunFeedLine ==
    /\ items < Len(feed)
    /\ NextItem(feed, items) # separator
    /\ Line(NextItem(feed, items))

NextRun == RunSeparator \/ RunFeedLine

SpecRun == InitRun /\ [][NextRun]_vars

\* The number of characters of the lines among the first n items of a feed.
RECURSIVE FeedChars(_, _)
FeedChars(fd, n) ==
    IF n = 0 THEN 0
    ELSE FeedChars(fd, n - 1) + (IF fd[n] = separator THEN 0 ELSE Len(fd[n]))

\* What a step wrote.
Appended == SubSeq(fp', Len(fp) + 1, Len(fp'))

\* C23: run() consumes the items of the feed in order, each once: every
\* step takes the next item of an unchanged feed, a boundary marker giving
\* one separator() call, which writes nothing, and a line one process() of
\* that line and one output(), which writes for that item alone; the
\* number of items left goes down by one at every step and no step is taken
\* with none left, so run() ends after the last item of a finite feed; and
\* the lines processed are at every time the lines among the items consumed,
\* at the end every line of the feed.
C23_RunConsumesFeed ==
    /\ [][ /\ items < Len(feed)
           /\ feed' = feed
           /\ items' = items + 1
           /\ Len(feed') - items' < Len(feed) - items
           /\ IF feed[items'] = separator
              THEN /\ last'.op = "separator"
                   /\ consumed' = consumed
                   /\ fp' = fp
              ELSE /\ last'.op = "line"
                   /\ last'.line = feed[items']
                   /\ consumed' = consumed + Len(feed[items'])
                   /\ Len(fp') >= Len(fp)
                   /\ SubSeq(fp', 1, Len(fp)) = fp
                   /\ \A k \in 1..Len(Appended) : Appended[k].item = items'
         ]_vars
    /\ [](/\ items \in 0..Len(feed)
          /\ consumed = FeedChars(feed, items)
          /\ items = Len(feed) => consumed = FeedChars(feed, Len(feed)))

\* The end of a feed of a line, a boundary marker, another line, the first
\* line again and a boundary marker.
C23_Witness ==
    /\ Len(feed) = 5 /\ items = Len(feed)
    /\ feed[2] = separator /\ feed[5] = separator
    /\ feed[1] # separator /\ feed[3] # feed[1] /\ feed[4] = feed[1]
    /\ last.op = "separator" /\ last.prev_op = "line"

---------------------------------------------------------------------------
(* The shape a line was learned from (checked under SpecParser).           *)

\* C24: at every point of a run of process() calls, each registered shape
\* is the one process() selects for the line it was learned from: no
\* earlier shape matches that line and the shape itself does; and a call
\* that processed such a line again returned that shape.
C24_OwnShapeSelected ==
    /\ Len(observed) = Len(values)
    /\ \A j \in 1..Len(values) :
          /\ FirstMatch(values, observed[j].line, 1) = j
          /\ (IsMatch /\ last.line = observed[j].line) =>
                 /\ last.res.idx = j
                 /\ last.res.fmt = values[j].fmt

\* A line is processed again after a call on another line, and a shape
\* learned after its own matches it too.
C24_Witness ==
    /\ IsMatch
    /\ last.res.idx = 1
    /\ last.line = observed[1].line
    /\ last.prev_line # last.line
    /\ Cardinality(Matching(values, last.line)) = 2

---------------------------------------------------------------------------
(* The number of values of a shape (checked under SpecParser).             *)

\* The number of NumberChunks of a shape.
NumberCount(fmt) == Len(NumberChunks(fmt))

\* C25: in every state of the Parser the values stored for a registered
\* shape are as many as the shape has NumberChunks; the values a process()
\* call returned, from a match or from parse(), are as many as the returned
\* shape has NumberChunks, and so are the deltas of a process() match and
\* the values they were taken from.
C25_ValueCounts ==
    /\ \A j \in 1..Len(values) :
          Len(values[j].vals) = NumberCount(values[j].fmt)
    /\ last.op \in {"parse", "process"} =>
          Len(last.res.vals) = NumberCount(last.res.fmt)
    /\ IsMatch =>
          /\ Len(last.res.deltas) = NumberCount(last.res.fmt)
          /\ Len(last.seen.latest) = NumberCount(last.res.fmt)

\* A process() match of a shape of two numbers by a line of one token,
\* which the pattern splits in two.
C25_Witness ==
    /\ IsMatch
    /\ NumberCount(last.res.fmt) = 2
    /\ Len(last.line) = 2
    /\ NonZero(last.res.deltas)

---------------------------------------------------------------------------
(* The counters of the Printer (checked under Spec).                       *)

\* What the last call wrote.
WrittenByLast == SelectSeq(fp, LAMBDA c : c.item = items)

\* C26: in every state of the Printer separators_pending and
\* lines_since_sep are not negative; after an output() that wrote a line
\* separators_pending is 0 and lines_since_sep is at least 1, and exactly 1
\* when the call wrote a banner; an output() writes at most one banner, and
\* before its lines; separator() writes nothing.
C26_PrinterCounters ==
    /\ separators_pending >= 0
    /\ lines_since_sep >= 0
    /\ (IsOutput /\ Body(WrittenByLast) # <<>>) =>
          /\ separators_pending = 0
          /\ lines_since_sep >= 1
          /\ HasBanner(WrittenByLast) => lines_since_sep = 1
    /\ IsOutput =>
          /\ Len(WrittenByLast) = Len(last.out)
          /\ \A i \in 2..Len(WrittenByLast) : WrittenByLast[i].kind # "banner"
          /\ HasBanner(WrittenByLast) => Body(WrittenByLast) # <<>>
    /\ last.op = "separator" => WrittenByLast = <<>>

\* An output() that wrote a banner and two lines, after a boundary that
\* followed two calls which wrote three lines.
C26_Witness ==
    /\ IsOutput
    /\ HasBanner(WrittenByLast)
    /\ Len(Body(WrittenByLast)) = 2
    /\ last.pending = 1
    /\ last.prev_op = "separator"
    /\ lines_since_sep = 1
    /\ items = 4
    /\ Len(Body(fp)) = 5

=============================================================================
